---- MODULE Spec2Model ----
(***************************************************************************)
(* The Socket.IO presence-and-room relay of backend/app/main.py.           *)
(*                                                                         *)
(* State: the presence registry online_users (sid -> user_id), the rooms   *)
(* of the Socket.IO server sio (room name -> sids), the lifecycle of each  *)
(* session, the events of each session that the server has dispatched as   *)
(* tasks and whose handler has not run yet.  Three more variables are the  *)
(* observer's: the record of the handler that ran last (what it was given, *)
(* what it emitted, the registry and the rooms it found), the user_id of   *)
(* the last user_online that each session had accepted, and the rooms that *)
(* each session entered through join_conversation and still is in.         *)
(*                                                                         *)
(* Every handler is one action.  The handlers are coroutines on one event  *)
(* loop; all their reads and writes of online_users and of the rooms, and  *)
(* the choice of the recipients of an emit, happen before the first point  *)
(* at which the coroutine can be suspended (sio.enter_room and             *)
(* sio.leave_room of the in-memory manager do not suspend), so a handler   *)
(* is atomic with respect to the others.                                   *)
(*                                                                         *)
(* The record `last` is the observer's: a handler writes it, and the       *)
(* observer takes it (Observe) before the next handler runs.  Observe      *)
(* touches nothing of the relay, so the relay's behaviours are those of    *)
(* the handlers alone.                                                     *)
(*                                                                         *)
(* Spec is the relay with payloads that name conversations.  SpecFault     *)
(* adds the handlers' runs in which data.get or sio.emit raises, and       *)
(* SpecAnyRoom the payloads whose conversation_id is the sid of a session. *)
(***************************************************************************)
EXTENDS Naturals, Sequences, FiniteSets, TLC

\* ---------------------------------------------------------------- bounds
\* Events of one session dispatched as tasks and not yet handled.
MaxPending == 1

\* The sids the transport hands out.
Sessions == {"s1", "s2"}
Users == {"u1", "u2"}
Convs == {"c1", "c2"}
Messages == {"m1"}

\* data.get(k) of a key that the payload does not carry.
None == "None"
\* The empty string, a value the payload can carry.
Empty == ""

\* Python truthiness of the values a payload field takes here (`not x`).
Falsy(v) == v \in {None, Empty}

\* Every sid is a member of the room named after itself (connect emits
\* with room=sid), so sids and conversation ids share one name space.
RoomNames == Convs \cup Sessions

\* ------------------------------------------------------- payloads (data)
ConvField == {None, Empty} \cup Convs
UserField == {None, Empty} \cup Users
MsgField == {None, Empty} \cup Messages
TypingField == {None, "True", "False"}
\* The user a fan-out or membership event names; it is never looked up.
SenderField == {None, Empty, "u1"}
TextField == {None, "hi"}

UserOnlineData == [user_id : UserField]
JoinData == [conversation_id : ConvField, user_id : SenderField]
LeaveData == [conversation_id : ConvField, user_id : SenderField]
SendMessageData == [conversation_id : ConvField, text : TextField]
TypingData == [conversation_id : ConvField, user_id : SenderField,
               is_typing : TypingField]
MessageReadData == [conversation_id : ConvField, message_id : MsgField,
                    user_id : SenderField]
VoiceCallData == [conversation_id : ConvField, caller_id : SenderField]

VARIABLES
    status,        \* sid -> "idle" | "connected" | "disconnected"
    online_users,  \* the dict online_users: a function sid -> user_id
    rooms,         \* the server's rooms: room name -> set of sids
    pending,       \* sid -> number of its events dispatched, not yet handled
    last,          \* the handler that ran last and what it emitted
    accepted,      \* sid -> user_id of its last accepted user_online
    joined         \* sid -> the rooms it entered through join_conversation
                   \* and has neither left nor lost by disconnecting

vars == <<status, online_users, rooms, pending, last, accepted, joined>>

\* The empty dict.
EmptyDict == [s \in {} |-> None]

\* del d[k]
DictDel(d, k) == [x \in (DOMAIN d) \ {k} |-> d[x]]

\* d[k] = v
DictSet(d, k, v) == [x \in (DOMAIN d) \cup {k} |-> IF x = k THEN v ELSE d[x]]

\* ------------------------------------------------------------- transport
\* Sessions connected to the server under the lifecycle st.
Connected(st) == {s \in Sessions : st[s] = "connected"}

\* The sids an emit reaches: everybody connected when no room is given,
\* else the members of the room, without skip_sid.
Participants(st, rms, room, skip) ==
    IF room = None THEN Connected(st)
    ELSE (rms[room] \cap Connected(st)) \ {skip}

\* sio.emit(event, payload, room=room, skip_sid=skip)
Emit(st, rms, event, payload, room, skip) ==
    [event |-> event, payload |-> payload, room |-> room,
     to |-> Participants(st, rms, room, skip)]

\* sio.enter_room(sid, room)
EnterRoom(rms, sid, room) == [rms EXCEPT ![room] = @ \cup {sid}]

\* sio.leave_room(sid, room)
LeaveRoom(rms, sid, room) == [rms EXCEPT ![room] = @ \ {sid}]

\* The server drops a disconnected sid from every room.
DropFromRooms(rms, sid) == [r \in RoomNames |-> rms[r] \ {sid}]

\* What a handler leaves behind for the observer: its arguments, how it
\* ended ("returned", or "caught" when its except clause ran), what it
\* emitted, the room calls it made (none, unless the handler says so) and
\* the registry and rooms it started from.
Ran(handler, sid, data, outcome, emits) ==
    [handler |-> handler, sid |-> sid, data |-> data,
     outcome |-> outcome, emits |-> emits, calls |-> <<>>,
     pre |-> [online_users |-> online_users, rooms |-> rooms,
              status |-> status]]

\* No record: before any handler ran, and after the observer took it.
NoRecord ==
    [handler |-> "none", sid |-> None, data |-> None,
     outcome |-> "returned", emits |-> <<>>, calls |-> <<>>, pre |-> None]

Init ==
    /\ status = [s \in Sessions |-> "idle"]
    /\ online_users = EmptyDict
    /\ rooms = [r \in RoomNames |-> {}]
    /\ pending = [s \in Sessions |-> 0]
    /\ accepted = [s \in Sessions |-> None]
    /\ joined = [s \in Sessions |-> {}]
    /\ last = NoRecord

\* ------------------------------------------------------------- lifecycle
\* Mutant: connect emits without room=sid.
ConnectEmits_Broadcast(st, rms, sid) ==
    <<Emit(st, rms, "connection_response",
           [status |-> "connected", sid |-> sid], None, None)>>

\* What connect(sid, environ) emits.
ConnectEmits(st, rms, sid) ==
    <<Emit(st, rms, "connection_response",
           [status |-> "connected", sid |-> sid], sid, None)>>

\* connect(sid, environ).  The server has registered the sid, and put it
\* in the room named after it, when it calls the handler.
connect(sid) ==
    /\ last.handler = "none"
    /\ status[sid] = "idle"
    /\ status' = [status EXCEPT ![sid] = "connected"]
    /\ rooms' = EnterRoom(rooms, sid, sid)
    /\ last' = Ran("connect", sid, None, "returned",
                   ConnectEmits(status', rooms', sid))
    /\ UNCHANGED <<online_users, pending, accepted, joined>>

\* The client of a connected session sends an event; the server dispatches
\* it as a task of its own.
Dispatch(sid) ==
    /\ last.handler = "none"
    /\ status[sid] = "connected"
    /\ pending[sid] < MaxPending
    /\ pending' = [pending EXCEPT ![sid] = @ + 1]
    /\ UNCHANGED <<status, online_users, rooms, last, accepted, joined>>

\* Mutant: disconnect forgets the del.
DisconnectRegistry_NoDel(reg, sid) == reg

\* Mutant: disconnect removes every entry of the user, not the session's.
DisconnectRegistry_ByUser(reg, sid) ==
    IF sid \in DOMAIN reg
    THEN [x \in {s \in DOMAIN reg : reg[s] # reg[sid]} |-> reg[x]]
    ELSE reg

\* The registry after disconnect(sid).
DisconnectRegistry(reg, sid) ==
    IF sid \in DOMAIN reg THEN DictDel(reg, sid) ELSE reg

\* Mutant: disconnect announces a user only when its last session goes.
DisconnectEmits_LastSession(st, rms, reg, sid) ==
    IF sid \in DOMAIN reg /\ \A s \in DOMAIN reg \ {sid} : reg[s] # reg[sid]
    THEN <<Emit(st, rms, "user_offline", [user_id |-> reg[sid]], None, None)>>
    ELSE <<>>

\* Mutant: disconnect pops the entry and emits whether or not it was there.
DisconnectEmits_Always(st, rms, reg, sid) ==
    <<Emit(st, rms, "user_offline",
           [user_id |-> IF sid \in DOMAIN reg THEN reg[sid] ELSE None],
           None, None)>>

\* What disconnect(sid) emits.
DisconnectEmits(st, rms, reg, sid) ==
    IF sid \in DOMAIN reg
    THEN <<Emit(st, rms, "user_offline", [user_id |-> reg[sid]], None, None)>>
    ELSE <<>>

\* disconnect(sid)
disconnect(sid) ==
    /\ last.handler = "none"
    /\ status[sid] = "connected"
    /\ status' = [status EXCEPT ![sid] = "disconnected"]
    /\ rooms' = DropFromRooms(rooms, sid)
    /\ online_users' = DisconnectRegistry(online_users, sid)
    /\ last' = Ran("disconnect", sid, None, "returned",
                   DisconnectEmits(status', rooms', online_users, sid))
    /\ joined' = [joined EXCEPT ![sid] = {}]
    /\ UNCHANGED <<pending, accepted>>

\* A dispatched event of sid reaches its handler.
Handle(sid) ==
    /\ last.handler = "none"
    /\ pending[sid] > 0
    /\ pending' = [pending EXCEPT ![sid] = @ - 1]

\* -------------------------------------------------------------- handlers
\* Mutant: user_online keeps the entry a session already has (setdefault).
UserOnlineRegistry_KeepFirst(reg, sid, data) ==
    IF Falsy(data.user_id) \/ sid \in DOMAIN reg THEN reg
    ELSE DictSet(reg, sid, data.user_id)

\* The registry after user_online(sid, data).
UserOnlineRegistry(reg, sid, data) ==
    IF Falsy(data.user_id) THEN reg ELSE DictSet(reg, sid, data.user_id)

\* Mutant: user_online emits with skip_sid=sid.
UserOnlineEmits_SkipSender(st, rms, sid, data) ==
    IF Falsy(data.user_id) THEN <<>>
    ELSE <<[Emit(st, rms, "user_online", [user_id |-> data.user_id],
                 None, None)
            EXCEPT !.to = @ \ {sid}]>>

\* What user_online(sid, data) emits.
UserOnlineEmits(st, rms, sid, data) ==
    IF Falsy(data.user_id) THEN <<>>
    ELSE <<Emit(st, rms, "user_online", [user_id |-> data.user_id], None, None)>>

\* user_online(sid, data)
user_online(sid, data) ==
    /\ Handle(sid)
    /\ online_users' = UserOnlineRegistry(online_users, sid, data)
    /\ last' = Ran("user_online", sid, data, "returned",
                   UserOnlineEmits(status, rooms, sid, data))
    /\ accepted' = IF Falsy(data.user_id) THEN accepted
                   ELSE [accepted EXCEPT ![sid] = data.user_id]
    /\ UNCHANGED <<status, rooms, joined>>

\* Whether join_conversation(sid, data) passes its validation.
JoinValid(data) == ~Falsy(data.conversation_id) /\ ~Falsy(data.user_id)

\* The rooms after join_conversation(sid, data).  sio.enter_room raises for
\* a sid that is not connected; the handler catches it.
JoinRooms(st, rms, sid, data) ==
    IF JoinValid(data) /\ st[sid] = "connected"
    THEN EnterRoom(rms, sid, data.conversation_id)
    ELSE rms

\* The rooms sid has joined, after join_conversation(sid, data).
JoinJoined(st, jn, sid, data) ==
    IF JoinValid(data) /\ st[sid] = "connected"
    THEN [jn EXCEPT ![sid] = @ \cup {data.conversation_id}]
    ELSE jn

\* The room calls of join_conversation(sid, data).
JoinCalls(sid, data) ==
    IF JoinValid(data)
    THEN <<[call |-> "enter_room", sid |-> sid, room |-> data.conversation_id]>>
    ELSE <<>>

\* Mutant: join_conversation emits with skip_sid=sid.
JoinEmits_SkipSender(st, rms, sid, data) ==
    IF JoinValid(data) /\ st[sid] = "connected"
    THEN <<Emit(st, rms, "joined_conversation",
                [conversation_id |-> data.conversation_id,
                 user_id |-> data.user_id],
                data.conversation_id, sid)>>
    ELSE <<>>

\* What join_conversation(sid, data) emits; rms are the rooms after
\* sio.enter_room.
JoinEmits(st, rms, sid, data) ==
    IF JoinValid(data) /\ st[sid] = "connected"
    THEN <<Emit(st, rms, "joined_conversation",
                [conversation_id |-> data.conversation_id,
                 user_id |-> data.user_id],
                data.conversation_id, None)>>
    ELSE <<>>

\* join_conversation(sid, data)
join_conversation(sid, data) ==
    /\ Handle(sid)
    /\ rooms' = JoinRooms(status, rooms, sid, data)
    /\ last' = [Ran("join_conversation", sid, data,
                    IF JoinValid(data) /\ status[sid] # "connected"
                    THEN "caught" ELSE "returned",
                    JoinEmits(status, rooms', sid, data))
                EXCEPT !.calls = JoinCalls(sid, data)]
    /\ joined' = JoinJoined(status, joined, sid, data)
    /\ UNCHANGED <<status, online_users, accepted>>

\* Mutant: leave_conversation validates user_id as join_conversation does.
LeaveRooms_NeedsUser(rms, sid, data) ==
    IF Falsy(data.conversation_id) \/ Falsy(data.user_id) THEN rms
    ELSE LeaveRoom(rms, sid, data.conversation_id)

\* The rooms after leave_conversation(sid, data).
LeaveRooms(rms, sid, data) ==
    IF Falsy(data.conversation_id) THEN rms
    ELSE LeaveRoom(rms, sid, data.conversation_id)

\* The rooms sid has joined, after leave_conversation(sid, data).
LeaveJoined(jn, sid, data) ==
    IF Falsy(data.conversation_id) THEN jn
    ELSE [jn EXCEPT ![sid] = @ \ {data.conversation_id}]

\* The room calls of leave_conversation(sid, data).
LeaveCalls(sid, data) ==
    IF Falsy(data.conversation_id) THEN <<>>
    ELSE <<[call |-> "leave_room", sid |-> sid, room |-> data.conversation_id]>>

\* What leave_conversation(sid, data) emits.
LeaveEmits(st, rms, sid, data) == <<>>

\* leave_conversation(sid, data)
leave_conversation(sid, data) ==
    /\ Handle(sid)
    /\ rooms' = LeaveRooms(rooms, sid, data)
    /\ last' = [Ran("leave_conversation", sid, data, "returned",
                    LeaveEmits(status, rooms', sid, data))
                EXCEPT !.calls = LeaveCalls(sid, data)]
    /\ joined' = LeaveJoined(joined, sid, data)
    /\ UNCHANGED <<status, online_users, accepted>>

\* Mutant: send_message relays for members of the room only.
SendMessageEmits_MembersOnly(st, rms, sid, data) ==
    IF Falsy(data.conversation_id) \/ sid \notin rms[data.conversation_id]
    THEN <<>>
    ELSE <<Emit(st, rms, "new_message", data, data.conversation_id, None)>>

\* Mutant: send_message emits with skip_sid=sid.
SendMessageEmits_SkipSender(st, rms, sid, data) ==
    IF Falsy(data.conversation_id) THEN <<>>
    ELSE <<Emit(st, rms, "new_message", data, data.conversation_id, sid)>>

\* What send_message(sid, data) emits.
SendMessageEmits(st, rms, sid, data) ==
    IF Falsy(data.conversation_id) THEN <<>>
    ELSE <<Emit(st, rms, "new_message", data, data.conversation_id, None)>>

\* send_message(sid, data)
send_message(sid, data) ==
    /\ Handle(sid)
    /\ last' = Ran("send_message", sid, data, "returned",
                   SendMessageEmits(status, rooms, sid, data))
    /\ UNCHANGED <<status, online_users, rooms, accepted, joined>>

\* data.get('is_typing', True)
IsTyping(data) == IF data.is_typing = None THEN "True" ELSE data.is_typing

\* Mutant: typing emits without skip_sid.
TypingEmits_NoSkip(st, rms, sid, data) ==
    IF Falsy(data.conversation_id) \/ Falsy(data.user_id) THEN <<>>
    ELSE <<Emit(st, rms, "user_typing",
                [conversation_id |-> data.conversation_id,
                 user_id |-> data.user_id,
                 is_typing |-> IsTyping(data)],
                data.conversation_id, None)>>

\* What typing(sid, data) emits.
TypingEmits(st, rms, sid, data) ==
    IF Falsy(data.conversation_id) \/ Falsy(data.user_id) THEN <<>>
    ELSE <<Emit(st, rms, "user_typing",
                [conversation_id |-> data.conversation_id,
                 user_id |-> data.user_id,
                 is_typing |-> IsTyping(data)],
                data.conversation_id, sid)>>

\* typing(sid, data)
typing(sid, data) ==
    /\ Handle(sid)
    /\ last' = Ran("typing", sid, data, "returned",
                   TypingEmits(status, rooms, sid, data))
    /\ UNCHANGED <<status, online_users, rooms, accepted, joined>>

\* Mutant: message_read validates with any() instead of all().
MessageReadEmits_Any(st, rms, sid, data) ==
    IF Falsy(data.conversation_id)
       \/ (Falsy(data.message_id) /\ Falsy(data.user_id))
    THEN <<>>
    ELSE <<Emit(st, rms, "message_read",
                [message_id |-> data.message_id, user_id |-> data.user_id],
                data.conversation_id, None)>>

\* Mutant: message_read forwards the payload it was given.
MessageReadEmits_Forward(st, rms, sid, data) ==
    IF Falsy(data.conversation_id) \/ Falsy(data.message_id)
       \/ Falsy(data.user_id)
    THEN <<>>
    ELSE <<Emit(st, rms, "message_read", data, data.conversation_id, None)>>

\* What message_read(sid, data) emits.
MessageReadEmits(st, rms, sid, data) ==
    IF Falsy(data.conversation_id) \/ Falsy(data.message_id)
       \/ Falsy(data.user_id)
    THEN <<>>
    ELSE <<Emit(st, rms, "message_read",
                [message_id |-> data.message_id, user_id |-> data.user_id],
                data.conversation_id, None)>>

\* message_read(sid, data)
message_read(sid, data) ==
    /\ Handle(sid)
    /\ last' = Ran("message_read", sid, data, "returned",
                   MessageReadEmits(status, rooms, sid, data))
    /\ UNCHANGED <<status, online_users, rooms, accepted, joined>>

\* Mutant: voice_call_request emits without skip_sid.
VoiceCallEmits_NoSkip(st, rms, sid, data) ==
    IF Falsy(data.conversation_id) \/ Falsy(data.caller_id) THEN <<>>
    ELSE <<Emit(st, rms, "incoming_call",
                [conversation_id |-> data.conversation_id,
                 caller_id |-> data.caller_id],
                data.conversation_id, None)>>

\* What voice_call_request(sid, data) emits.
VoiceCallEmits(st, rms, sid, data) ==
    IF Falsy(data.conversation_id) \/ Falsy(data.caller_id) THEN <<>>
    ELSE <<Emit(st, rms, "incoming_call",
                [conversation_id |-> data.conversation_id,
                 caller_id |-> data.caller_id],
                data.conversation_id, sid)>>

\* voice_call_request(sid, data)
voice_call_request(sid, data) ==
    /\ Handle(sid)
    /\ last' = Ran("voice_call_request", sid, data, "returned",
                   VoiceCallEmits(status, rooms, sid, data))
    /\ UNCHANGED <<status, online_users, rooms, accepted, joined>>

\* The observer takes the record of the handler that ran.
Observe ==
    /\ last.handler # "none"
    /\ last' = NoRecord
    /\ UNCHANGED <<status, online_users, rooms, pending, accepted, joined>>

Next ==
    \/ \E sid \in Sessions : connect(sid)
    \/ \E sid \in Sessions : Dispatch(sid)
    \/ \E sid \in Sessions : disconnect(sid)
    \/ \E sid \in Sessions, data \in UserOnlineData : user_online(sid, data)
    \/ \E sid \in Sessions, data \in JoinData : join_conversation(sid, data)
    \/ \E sid \in Sessions, data \in LeaveData : leave_conversation(sid, data)
    \/ \E sid \in Sessions, data \in SendMessageData : send_message(sid, data)
    \/ \E sid \in Sessions, data \in TypingData : typing(sid, data)
    \/ \E sid \in Sessions, data \in MessageReadData : message_read(sid, data)
    \/ \E sid \in Sessions, data \in VoiceCallData :
            voice_call_request(sid, data)
    \/ Observe

Spec == Init /\ [][Next]_vars

\* ---------------------------------------------------------------- faults
\* The handlers above with something going wrong inside them: a payload
\* that is no mapping, so that data.get raises, or a sio.emit that raises.
\* A handler ends "caught" when its except clause took the exception, and
\* "raised" when the exception left the handler.

\* A payload that is not a mapping.
NotAMapping == "not-a-mapping"

\* The handlers that take a payload; each starts with data.get inside try.
WithPayload ==
    {"user_online", "join_conversation", "leave_conversation",
     "send_message", "typing", "message_read", "voice_call_request"}

\* A handler given a payload without .get: the first statement of its try
\* block raises, the except clause prints, nothing else runs.
bad_payload(sid, handler) ==
    /\ Handle(sid)
    /\ last' = Ran(handler, sid, NotAMapping, "caught", <<>>)
    /\ UNCHANGED <<status, online_users, rooms, accepted, joined>>

\* connect(sid, environ) when sio.emit raises: there is no try.
connect_emit_raises(sid) ==
    /\ last.handler = "none"
    /\ status[sid] = "idle"
    /\ status' = [status EXCEPT ![sid] = "connected"]
    /\ rooms' = EnterRoom(rooms, sid, sid)
    /\ last' = Ran("connect", sid, None, "raised", <<>>)
    /\ UNCHANGED <<online_users, pending, accepted, joined>>

\* disconnect(sid) when sio.emit raises: the entry is deleted by then, and
\* there is no try.
disconnect_emit_raises(sid) ==
    /\ last.handler = "none"
    /\ status[sid] = "connected"
    /\ sid \in DOMAIN online_users
    /\ status' = [status EXCEPT ![sid] = "disconnected"]
    /\ rooms' = DropFromRooms(rooms, sid)
    /\ online_users' = DisconnectRegistry(online_users, sid)
    /\ last' = Ran("disconnect", sid, None, "raised", <<>>)
    /\ joined' = [joined EXCEPT ![sid] = {}]
    /\ UNCHANGED <<pending, accepted>>

\* user_online(sid, data) when sio.emit raises: the registry is written by
\* then.
user_online_emit_raises(sid, data) ==
    /\ Handle(sid)
    /\ ~Falsy(data.user_id)
    /\ online_users' = UserOnlineRegistry(online_users, sid, data)
    /\ last' = Ran("user_online", sid, data, "caught", <<>>)
    /\ accepted' = [accepted EXCEPT ![sid] = data.user_id]
    /\ UNCHANGED <<status, rooms, joined>>

\* join_conversation(sid, data) when sio.emit raises: sio.enter_room has
\* returned by then.
join_emit_raises(sid, data) ==
    /\ Handle(sid)
    /\ JoinValid(data)
    /\ status[sid] = "connected"
    /\ rooms' = JoinRooms(status, rooms, sid, data)
    /\ last' = [Ran("join_conversation", sid, data, "caught", <<>>)
                EXCEPT !.calls = JoinCalls(sid, data)]
    /\ joined' = JoinJoined(status, joined, sid, data)
    /\ UNCHANGED <<status, online_users, accepted>>

\* The payloads of a fan-out handler that pass its validation.
FanOutValid(handler) ==
    CASE handler = "send_message" ->
            {d \in SendMessageData : SendMessageEmits(status, rooms, None, d) # <<>>}
      [] handler = "typing" ->
            {d \in TypingData : TypingEmits(status, rooms, None, d) # <<>>}
      [] handler = "message_read" ->
            {d \in MessageReadData :
                MessageReadEmits(status, rooms, None, d) # <<>>}
      [] handler = "voice_call_request" ->
            {d \in VoiceCallData : VoiceCallEmits(status, rooms, None, d) # <<>>}

\* send_message, typing, message_read or voice_call_request when sio.emit
\* raises: the except clause prints.
fan_out_emit_raises(sid, handler, data) ==
    /\ Handle(sid)
    /\ data \in FanOutValid(handler)
    /\ last' = Ran(handler, sid, data, "caught", <<>>)
    /\ UNCHANGED <<status, online_users, rooms, accepted, joined>>

NextFault ==
    \/ Next
    \/ \E sid \in Sessions, handler \in WithPayload : bad_payload(sid, handler)
    \/ \E sid \in Sessions : connect_emit_raises(sid)
    \/ \E sid \in Sessions : disconnect_emit_raises(sid)
    \/ \E sid \in Sessions, data \in UserOnlineData :
            user_online_emit_raises(sid, data)
    \/ \E sid \in Sessions, data \in JoinData : join_emit_raises(sid, data)
    \/ \E sid \in Sessions : \E data \in SendMessageData :
            fan_out_emit_raises(sid, "send_message", data)
    \/ \E sid \in Sessions : \E data \in TypingData :
            fan_out_emit_raises(sid, "typing", data)
    \/ \E sid \in Sessions : \E data \in MessageReadData :
            fan_out_emit_raises(sid, "message_read", data)
    \/ \E sid \in Sessions : \E data \in VoiceCallData :
            fan_out_emit_raises(sid, "voice_call_request", data)

SpecFault == Init /\ [][NextFault]_vars

\* ------------------------------------------------------ sids as rooms
\* The relay takes any conversation_id, and the name of a room may be the
\* sid of a session (connect emits with room=sid).  The payloads here name
\* a conversation or a sid that the server has handed out; a sid cannot be
\* named before that.
KnownRooms == Convs \cup {s \in Sessions : status[s] # "idle"}

AnyRoomField == {None} \cup KnownRooms

NextAnyRoom ==
    \/ \E sid \in Sessions : connect(sid)
    \/ \E sid \in Sessions : Dispatch(sid)
    \/ \E sid \in Sessions : disconnect(sid)
    \/ \E sid \in Sessions : user_online(sid, [user_id |-> "u1"])
    \/ \E sid \in Sessions, room \in AnyRoomField :
            join_conversation(sid, [conversation_id |-> room, user_id |-> "u1"])
    \/ \E sid \in Sessions, room \in AnyRoomField :
            leave_conversation(sid, [conversation_id |-> room, user_id |-> "u1"])
    \/ \E sid \in Sessions, room \in AnyRoomField :
            send_message(sid, [conversation_id |-> room, text |-> "hi"])
    \/ \E sid \in Sessions, room \in AnyRoomField :
            typing(sid, [conversation_id |-> room, user_id |-> "u1",
                         is_typing |-> None])
    \/ \E sid \in Sessions, room \in AnyRoomField :
            message_read(sid, [conversation_id |-> room, message_id |-> "m1",
                               user_id |-> "u1"])
    \/ \E sid \in Sessions, room \in AnyRoomField :
            voice_call_request(sid, [conversation_id |-> room,
                                     caller_id |-> "u1"])
    \/ Observe

SpecAnyRoom == Init /\ [][NextAnyRoom]_vars

\* ================================================================ claims
\* The other session.
Others(sid) == Sessions \ {sid}

\* C1: once the disconnect handler of a session has completed, the presence
\* registry holds no entry keyed by that session, whatever was handled
\* before.
C1_DisconnectClearsPresence ==
    last.handler = "disconnect" => last.sid \notin DOMAIN online_users

\* A disconnect of a session that had an entry, another entry remaining.
C1_Witness ==
    /\ last.handler = "disconnect"
    /\ last.sid \in DOMAIN last.pre.online_users
    /\ DOMAIN online_users # {}

\* C2: once disconnect(S) and every dispatched handler of S, a user_online
\* among them, have completed, in whichever order they ran, the registry
\* holds no entry for S.
C2_NoResurrection ==
    \A s \in Sessions :
        (status[s] = "disconnected" /\ pending[s] = 0)
            => s \notin DOMAIN online_users

\* C3: a typing event of session S with non-empty conversation_id C and
\* user_id is delivered as user_typing to exactly the members of room C
\* other than S, and never to S.
C3_TypingSkipsSender ==
    (/\ last.handler = "typing"
     /\ ~Falsy(last.data.conversation_id)
     /\ ~Falsy(last.data.user_id))
    => /\ Len(last.emits) = 1
       /\ last.emits[1].event = "user_typing"
       /\ last.emits[1].to =
              last.pre.rooms[last.data.conversation_id] \ {last.sid}
       /\ last.sid \notin last.emits[1].to

\* A member of the room typed, and another member received it.
C3_Witness ==
    /\ last.handler = "typing"
    /\ last.data.conversation_id = "c1"
    /\ last.data.user_id = "u1"
    /\ last.sid \in rooms["c1"]
    /\ last.emits[1].to = Others(last.sid)

\* C4: a send_message event with non-empty conversation_id C is delivered
\* as new_message, with the payload it came with, to every member of room
\* C, the sender included when it is a member.
C4_SendMessageToWholeRoom ==
    (/\ last.handler = "send_message"
     /\ ~Falsy(last.data.conversation_id))
    => /\ Len(last.emits) = 1
       /\ last.emits[1].event = "new_message"
       /\ last.emits[1].payload = last.data
       /\ last.emits[1].to = last.pre.rooms[last.data.conversation_id]

\* A member of the room sent a message; it and the other member got it.
C4_Witness ==
    /\ last.handler = "send_message"
    /\ last.data = [conversation_id |-> "c1", text |-> "hi"]
    /\ last.sid \in rooms["c1"]
    /\ last.emits[1].to = Sessions
    /\ last.emits[1].payload.text = "hi"
\* The handlers that validate a payload, and whether a required field of
\* the payload the handler was given is missing or empty.
Validating ==
    {"user_online", "join_conversation", "leave_conversation",
     "send_message", "typing", "message_read", "voice_call_request"}

RequiredMissing(r) ==
    CASE r.handler = "user_online" -> Falsy(r.data.user_id)
      [] r.handler = "join_conversation" ->
            Falsy(r.data.conversation_id) \/ Falsy(r.data.user_id)
      [] r.handler = "leave_conversation" -> Falsy(r.data.conversation_id)
      [] r.handler = "send_message" -> Falsy(r.data.conversation_id)
      [] r.handler = "typing" ->
            Falsy(r.data.conversation_id) \/ Falsy(r.data.user_id)
      [] r.handler = "message_read" ->
            \/ Falsy(r.data.conversation_id)
            \/ Falsy(r.data.message_id)
            \/ Falsy(r.data.user_id)
      [] r.handler = "voice_call_request" ->
            Falsy(r.data.conversation_id) \/ Falsy(r.data.caller_id)
      [] OTHER -> FALSE

\* C5: a validating handler given a payload with a required field missing
\* or empty emits nothing, raises nothing, and leaves the registry and
\* every room as they were.
C5_InvalidPayloadDropped ==
    (last.handler \in Validating /\ RequiredMissing(last))
    => /\ last.emits = <<>>
       /\ last.outcome = "returned"
       /\ online_users = last.pre.online_users
       /\ rooms = last.pre.rooms

\* A read receipt with an empty message_id for a room that has members.
C5_Witness ==
    /\ last.handler = "message_read"
    /\ last.data =
         [conversation_id |-> "c1", message_id |-> Empty, user_id |-> "u1"]
    /\ rooms["c1"] = Sessions
    /\ last.emits = <<>>

\* C6: disconnect(S) broadcasts user_offline globally exactly once when S
\* had a registry entry, with the user_id of the last user_online accepted
\* for S, and not at all when S had none; nothing but a disconnect emits
\* user_offline.
C6_UserOfflineOnce ==
    /\ last.handler = "disconnect" =>
          IF last.sid \in DOMAIN last.pre.online_users
          THEN last.emits =
                 <<[event |-> "user_offline",
                    payload |-> [user_id |-> accepted[last.sid]],
                    room |-> None, to |-> Connected(status)]>>
          ELSE last.emits = <<>>
    /\ \A i \in 1..Len(last.emits) :
          last.emits[i].event = "user_offline" => last.handler = "disconnect"

\* A session marked online disconnects while the other one is connected.
C6_Witness ==
    /\ last.handler = "disconnect"
    /\ last.sid \in DOMAIN last.pre.online_users
    /\ last.pre.online_users[last.sid] = "u1"
    /\ Len(last.emits) = 1
    /\ last.emits[1].to = Others(last.sid)

\* C7: after user_online(S, U) with non-empty U the registry maps S to U;
\* a session that already had an entry has it overwritten, the entries of
\* the other sessions stay, and every entry is a single user_id.
C7_UserOnlineOverwrites ==
    /\ (last.handler = "user_online" /\ ~Falsy(last.data.user_id)) =>
          /\ DOMAIN online_users = DOMAIN last.pre.online_users \cup {last.sid}
          /\ online_users[last.sid] = last.data.user_id
          /\ \A s \in DOMAIN last.pre.online_users \ {last.sid} :
                online_users[s] = last.pre.online_users[s]
    /\ DOMAIN online_users \subseteq Sessions
    /\ \A s \in DOMAIN online_users : online_users[s] \in Users

\* A second user_online of a session, with another user.
C7_Witness ==
    /\ last.handler = "user_online"
    /\ last.sid \in DOMAIN last.pre.online_users
    /\ last.pre.online_users[last.sid] = "u1"
    /\ last.data.user_id = "u2"
    /\ online_users[last.sid] = "u2"

\* C8: a user_online event with non-empty user_id U is answered by one
\* user_online notification carrying U, emitted without a room: it reaches
\* every connected session, in a room or not, the sender included.
C8_UserOnlineGlobal ==
    (last.handler = "user_online" /\ ~Falsy(last.data.user_id))
    => last.emits =
         <<[event |-> "user_online",
            payload |-> [user_id |-> last.data.user_id],
            room |-> None, to |-> Connected(status)]>>

\* The sender is in no conversation, the other session is in one; both
\* are notified.
C8_Witness ==
    /\ last.handler = "user_online"
    /\ last.data.user_id = "u1"
    /\ \A c \in Convs : last.sid \notin rooms[c]
    /\ \E c \in Convs : rooms[c] = Others(last.sid)
    /\ last.emits[1].to = Sessions

\* C9: join_conversation of a connected session S with non-empty C and U
\* puts S in room C and emits joined_conversation {conversation_id: C,
\* user_id: U} to the room as it is after the join, S included.
C9_JoinNotifiesRoom ==
    (/\ last.handler = "join_conversation"
     /\ ~Falsy(last.data.conversation_id)
     /\ ~Falsy(last.data.user_id)
     /\ status[last.sid] = "connected")
    => /\ rooms[last.data.conversation_id] =
              last.pre.rooms[last.data.conversation_id] \cup {last.sid}
       /\ last.emits =
            <<[event |-> "joined_conversation",
               payload |-> [conversation_id |-> last.data.conversation_id,
                            user_id |-> last.data.user_id],
               room |-> last.data.conversation_id,
               to |-> rooms[last.data.conversation_id]]>>
       /\ last.sid \in last.emits[1].to

\* A session joins a room the other session is in; both are told.
C9_Witness ==
    /\ last.handler = "join_conversation"
    /\ last.data = [conversation_id |-> "c1", user_id |-> "u1"]
    /\ last.pre.rooms["c1"] = Others(last.sid)
    /\ last.emits[1].to = Sessions

\* The handler that ran was the join of room c by session s.
IsJoinOf(s, c) ==
    /\ last.handler = "join_conversation"
    /\ last.sid = s
    /\ last.data.conversation_id = c

\* C10: leave_conversation with non-empty C takes S out of room C, with or
\* without a user_id, and emits nothing.  From then on S gets no broadcast
\* of room C until it joins C again: a handler that finds S outside room C
\* delivers a broadcast of C to S, or leaves S in room C, only when it is
\* the join of C by S.
C10_LeaveSilences ==
    /\ (last.handler = "leave_conversation"
        /\ ~Falsy(last.data.conversation_id)) =>
          /\ last.sid \notin rooms[last.data.conversation_id]
          /\ last.emits = <<>>
    /\ last.handler # "none" =>
          \A s \in Sessions, c \in Convs :
             s \notin last.pre.rooms[c] =>
                \/ IsJoinOf(s, c)
                \/ /\ s \notin rooms[c]
                   /\ \A i \in 1..Len(last.emits) :
                         last.emits[i].room = c => s \notin last.emits[i].to

\* A member leaves without naming a user; the other member stays.
C10_Witness ==
    /\ last.handler = "leave_conversation"
    /\ last.data = [conversation_id |-> "c1", user_id |-> None]
    /\ last.sid \in last.pre.rooms["c1"]
    /\ rooms["c1"] = Others(last.sid)
\* C11: a message_read event with non-empty conversation_id C, message_id M
\* and user_id U reaches every member of room C, the sender included when
\* it is one, and what is delivered is exactly {message_id: M, user_id: U}.
C11_MessageReadToWholeRoom ==
    (/\ last.handler = "message_read"
     /\ ~Falsy(last.data.conversation_id)
     /\ ~Falsy(last.data.message_id)
     /\ ~Falsy(last.data.user_id))
    => last.emits =
         <<[event |-> "message_read",
            payload |-> [message_id |-> last.data.message_id,
                         user_id |-> last.data.user_id],
            room |-> last.data.conversation_id,
            to |-> last.pre.rooms[last.data.conversation_id]]>>

\* A member of the room sends a read receipt; both members get it.
C11_Witness ==
    /\ last.handler = "message_read"
    /\ last.data =
         [conversation_id |-> "c1", message_id |-> "m1", user_id |-> "u1"]
    /\ last.sid \in rooms["c1"]
    /\ last.emits[1].to = Sessions
    /\ DOMAIN last.emits[1].payload = {"message_id", "user_id"}

\* C12: a voice_call_request of session S with non-empty conversation_id C
\* and caller_id K is delivered as {conversation_id: C, caller_id: K} to
\* exactly the members of room C other than S, and never to S.
C12_VoiceCallSkipsCaller ==
    (/\ last.handler = "voice_call_request"
     /\ ~Falsy(last.data.conversation_id)
     /\ ~Falsy(last.data.caller_id))
    => /\ Len(last.emits) = 1
       /\ last.emits[1].event = "incoming_call"
       /\ last.emits[1].payload =
              [conversation_id |-> last.data.conversation_id,
               caller_id |-> last.data.caller_id]
       /\ last.emits[1].to =
              last.pre.rooms[last.data.conversation_id] \ {last.sid}
       /\ last.sid \notin last.emits[1].to

\* A member of the room calls; the other member is rung.
C12_Witness ==
    /\ last.handler = "voice_call_request"
    /\ last.data = [conversation_id |-> "c1", caller_id |-> "u1"]
    /\ last.sid \in rooms["c1"]
    /\ last.emits[1].to = Others(last.sid)
\* C13: connect(S) emits exactly one connection_response {status:
\* "connected", sid: S}, to S alone; it makes no room call and leaves the
\* registry and every other room as they were.
C13_ConnectAnswersCaller ==
    last.handler = "connect"
    => /\ last.emits =
            <<[event |-> "connection_response",
               payload |-> [status |-> "connected", sid |-> last.sid],
               room |-> last.sid, to |-> {last.sid}]>>
       /\ last.calls = <<>>
       /\ online_users = last.pre.online_users
       /\ \A r \in RoomNames \ {last.sid} : rooms[r] = last.pre.rooms[r]

\* A session connects while the other one is connected, online and in a
\* conversation.
C13_Witness ==
    /\ last.handler = "connect"
    /\ Connected(status) = Sessions
    /\ DOMAIN online_users = Others(last.sid)
    /\ rooms["c1"] = Others(last.sid)

\* C14: disconnect(S) removes S's entry from the registry, if there is one,
\* and that is all it does to the relay's state: the other entries stay,
\* it makes no room call, and no other session's membership changes.
C14_DisconnectFrame ==
    last.handler = "disconnect"
    => /\ DOMAIN online_users = DOMAIN last.pre.online_users \ {last.sid}
       /\ \A s \in DOMAIN online_users :
             online_users[s] = last.pre.online_users[s]
       /\ last.calls = <<>>
       /\ \A r \in RoomNames : rooms[r] = last.pre.rooms[r] \ {last.sid}

\* A session with an entry disconnects; the other one keeps its entry and
\* its room.
C14_Witness ==
    /\ last.handler = "disconnect"
    /\ DOMAIN last.pre.online_users = Sessions
    /\ DOMAIN online_users = Others(last.sid)
    /\ last.pre.rooms["c1"] = Sessions
    /\ rooms["c1"] = Others(last.sid)

\* C17: when two sessions are mapped to the same user U, disconnect of one
\* of them leaves the other mapped to U and still broadcasts user_offline
\* for U.
C17_OfflineWhileStillOnline ==
    (last.handler = "disconnect" /\ last.sid \in DOMAIN last.pre.online_users)
    => /\ \A s \in DOMAIN last.pre.online_users \ {last.sid} :
             /\ s \in DOMAIN online_users
             /\ online_users[s] = last.pre.online_users[s]
       /\ Len(last.emits) = 1
       /\ last.emits[1].event = "user_offline"
       /\ last.emits[1].payload.user_id = last.pre.online_users[last.sid]

\* user_offline for U has been emitted, to a session still mapped to U.
C17_Witness ==
    /\ last.handler = "disconnect"
    /\ Len(last.emits) = 1
    /\ last.emits[1].event = "user_offline"
    /\ \E s \in DOMAIN online_users :
          /\ online_users[s] = last.emits[1].payload.user_id
          /\ status[s] = "connected"
          /\ s \in last.emits[1].to

\* The handlers that only relay.
FanOut == {"send_message", "typing", "message_read", "voice_call_request"}

\* C19: send_message, typing, message_read and voice_call_request change
\* neither the registry nor any room, and they relay for any sender: the
\* broadcast goes to the members of the room (without the sender, for
\* typing and voice_call_request) whether or not the sender is online or a
\* member.
C19_FanOutFrame ==
    last.handler \in FanOut
    => /\ online_users = last.pre.online_users
       /\ rooms = last.pre.rooms
       /\ last.calls = <<>>
       /\ ~RequiredMissing(last) =>
             /\ Len(last.emits) = 1
             /\ last.emits[1].to \cup {last.sid} =
                  last.pre.rooms[last.data.conversation_id] \cup {last.sid}

\* A session that is neither online nor in the room sends a message, and
\* the member of the room receives it.
C19_Witness ==
    /\ last.handler = "send_message"
    /\ last.data.conversation_id = "c1"
    /\ last.sid \notin DOMAIN online_users
    /\ \A c \in Convs : last.sid \notin rooms[c]
    /\ rooms["c1"] = Others(last.sid)
    /\ last.emits[1].to = Others(last.sid)
\* C15: no handler of the relay, connect and disconnect included, lets an
\* exception raised inside it (a failing emit, a payload that is no
\* mapping) leave the handler.
C15_ExceptionsCaught == last.outcome \in {"returned", "caught"}

\* C16: a handler that fails after its validation leaves the relay's state
\* as it found it: a failed user_online leaves no new or changed entry, a
\* failed join_conversation leaves the session out of the room.
C16_FailedEventDropped ==
    last.outcome = "caught"
    => /\ online_users = last.pre.online_users
       /\ rooms = last.pre.rooms

\* The events that the relay emits to the room of a conversation.
RoomScoped ==
    {"joined_conversation", "new_message", "user_typing", "message_read",
     "incoming_call"}

\* C18: a broadcast to the room of a conversation reaches only sessions
\* that joined that conversation through join_conversation and have neither
\* left it nor disconnected since.
C18_OnlyJoinedReceive ==
    \A i \in DOMAIN last.emits :
        last.emits[i].event \in RoomScoped
        => \A t \in last.emits[i].to : last.emits[i].room \in joined[t]
====
